---- MODULE Spec2Model ----
(***************************************************************************)
(* Retrieval-and-rerank pipeline of the personal bookshelf chat service    *)
(* (chat/services.py, AIService): the heuristic question classifier, the   *)
(* recency short-circuit, query rewriting, filtered nearest-neighbour      *)
(* search, deduplication, LLM reranking and context assembly.              *)
(*                                                                         *)
(* Text is modelled at character level: a Python str is a sequence of      *)
(* one-character strings, so that substring tests, lower() and replace()   *)
(* are computed as the code computes them.                                 *)
(***************************************************************************)
EXTENDS Integers, Sequences, FiniteSets, TLC

VARIABLES
  corpus,         \* BookEmbedding rows: the set of stored documents
  user,           \* AIService.user, the owner the service was built for
  question,       \* get_context argument
  k,              \* get_context argument
  pc,             \* position of the running get_context call
  status_filter,  \* local of get_context
  genre_filter,   \* local of get_context
  queries,        \* local of get_context: the expanded queries
  qi,             \* number of queries already processed by the search loop
  vec,            \* local of the search loop: the current query embedding
  all_docs,       \* local of get_context: accumulated candidates
  unique,         \* local of get_context: deduplicated candidates
  ranked,         \* local of get_context: (score, doc) pairs
  judged,         \* what the judge answered for each entry of ranked
  top_docs,       \* the documents selected for the context
  result,         \* the returned context string
  calls,          \* number of calls made to each external collaborator
  searched,       \* per processed query: whether its search succeeded
  rewritten,      \* local of get_context: what the rewrite call gave
  searches,       \* per processed query: whether it was embedded, what its search gave
  script,         \* fixed collaborator responses of a repeated run, or NoScript
  first,          \* outcome of the first of two identical runs
  intent,         \* the classifier's output for question (classifier runs)
  user_books,     \* UserBook table (lifecycle runs)
  book_embeddings,\* BookEmbedding table as the save hook maintains it
  next_id,        \* next primary key of the UserBook table
  now             \* the clock, in minutes

vars == <<corpus, user, question, k, pc, status_filter, genre_filter, queries,
          qi, vec, all_docs, unique, ranked, judged, top_docs, result, calls,
          searched, rewritten, searches, script, first, intent, user_books,
          book_embeddings, next_id, now>>

(***************************************************************************)
(* Strings                                                                 *)
(***************************************************************************)
UpperCase == <<"A","B","C","D","E","F","G","H","I","J","K","L","M","N","O","P","Q","R","S","T","U","V","W","X","Y","Z">>
LowerCase == <<"a","b","c","d","e","f","g","h","i","j","k","l","m","n","o","p","q","r","s","t","u","v","w","x","y","z">>

\* str.lower(), on the ASCII letters
lower(s) ==
  [i \in 1..Len(s) |->
     IF \E j \in 1..Len(UpperCase) : UpperCase[j] = s[i]
       THEN LowerCase[CHOOSE j \in 1..Len(UpperCase) : UpperCase[j] = s[i]]
       ELSE s[i]]

\* Python's  w in q  for strings: w occurs in q as a contiguous substring
Contains(q, w) ==
  \E i \in 0..(Len(q) - Len(w)) : SubSeq(q, i + 1, i + Len(w)) = w

\* str.replace(c, "") for a one-character c
replace(s, c) == SelectSeq(s, LAMBDA x : x # c)

\* any(w in q for w in phrases)
any_in(phrases, q) == \E i \in 1..Len(phrases) : Contains(q, phrases[i])

\* Python's None, for the optional status
None == "None"

(***************************************************************************)
(* Query classifier                                                        *)
(***************************************************************************)
\* services.py:127  ["currently reading", "still reading", "am reading"]
reading_phrases ==
  << <<"c","u","r","r","e","n","t","l","y"," ","r","e","a","d","i","n","g">>,
     <<"s","t","i","l","l"," ","r","e","a","d","i","n","g">>,
     <<"a","m"," ","r","e","a","d","i","n","g">> >>

\* services.py:129  ["want to read", "to-read", "plan to read", "future"]
want_to_read_phrases ==
  << <<"w","a","n","t"," ","t","o"," ","r","e","a","d">>,
     <<"t","o","-","r","e","a","d">>,
     <<"p","l","a","n"," ","t","o"," ","r","e","a","d">>,
     <<"f","u","t","u","r","e">> >>

\* services.py:133-141  "finished", "completed", "already read", "have read", "last read", "most recent", "recently read"
read_phrases ==
  << <<"f","i","n","i","s","h","e","d">>,
     <<"c","o","m","p","l","e","t","e","d">>,
     <<"a","l","r","e","a","d","y"," ","r","e","a","d">>,
     <<"h","a","v","e"," ","r","e","a","d">>,
     <<"l","a","s","t"," ","r","e","a","d">>,
     <<"m","o","s","t"," ","r","e","c","e","n","t">>,
     <<"r","e","c","e","n","t","l","y"," ","r","e","a","d">> >>

\* services.py:149-160  the recency phrases, in the order of the source
recency_phrases ==
  << <<"l","a","s","t"," ","r","e","a","d">>,
     <<"m","o","s","t"," ","r","e","c","e","n","t">>,
     <<"r","e","c","e","n","t","l","y"," ","r","e","a","d">>,
     <<"l","a","t","e","s","t"," ","r","e","a","d">>,
     <<"l","a","s","t"," ","b","o","o","k">>,
     <<"l","a","t","e","s","t"," ","b","o","o","k">>,
     <<"m","o","s","t"," ","r","e","c","e","n","t","l","y">>,
     <<"j","u","s","t"," ","f","i","n","i","s","h","e","d">>,
     <<"l","a","s","t"," ","f","i","n","i","s","h","e","d">>,
     <<"j","u","s","t"," ","r","e","a","d">> >>

\* services.py:165-173  the canonical genre list, in the order of the source
common_genres ==
  << <<"s","c","i","-","f","i">>,
     <<"s","c","i","e","n","c","e"," ","f","i","c","t","i","o","n">>,
     <<"f","a","n","t","a","s","y">>,
     <<"m","y","s","t","e","r","y">>,
     <<"t","h","r","i","l","l","e","r">>,
     <<"r","o","m","a","n","c","e">>,
     <<"n","o","n","-","f","i","c","t","i","o","n">> >>
\* Faulty variant of _parse_status_filter: the read phrases are tested first
_parse_status_filter_read_first(q0) ==
  LET q == lower(q0) IN
    IF any_in(read_phrases, q) THEN "read"
    ELSE IF any_in(reading_phrases, q) THEN "reading"
    ELSE IF any_in(want_to_read_phrases, q) THEN "want_to_read"
    ELSE None

_parse_status_filter(q0) ==
  LET q == lower(q0) IN
    IF any_in(reading_phrases, q) THEN "reading"
    ELSE IF any_in(want_to_read_phrases, q) THEN "want_to_read"
    ELSE IF any_in(read_phrases, q) THEN "read"
    ELSE None

_is_recency_query(q0) == any_in(recency_phrases, lower(q0))

\* The genre token, or the empty string where the code returns None (both are
\* falsy in the code's  if genre_filter:  and no genre normalises to "").
_parse_genre_filter(q0) ==
  LET q == lower(q0) IN
    IF \E i \in 1..Len(common_genres) : Contains(q, common_genres[i])
      THEN LET g == common_genres[CHOOSE i \in 1..Len(common_genres) :
                      /\ Contains(q, common_genres[i])
                      /\ \A j \in 1..(i - 1) : ~Contains(q, common_genres[j])]
           IN replace(replace(g, " "), "-")
      ELSE <<>>

(***************************************************************************)
(* Records: books, tracked books (UserBook) and their documents            *)
(***************************************************************************)
Users == {"u1", "u2"}

\* UserBook.STATUS_CHOICES
STATUS_CHOICES == {"want_to_read", "reading", "read"}

\* The text of a status value
status_text(s) ==
  CASE s = "want_to_read" -> <<"w","a","n","t","_","t","o","_","r","e","a","d">>
    [] s = "reading" -> <<"r","e","a","d","i","n","g">>
    [] s = "read" -> <<"r","e","a","d">>
    [] s = "" -> <<>>

DecimalDigits == <<"0","1","2","3","4","5","6","7","8","9">>

\* str(n) for a natural number
RECURSIVE str_int(_)
str_int(n) ==
  IF n < 10 THEN <<DecimalDigits[n + 1]>>
  ELSE str_int(n \div 10) \o <<DecimalDigits[(n % 10) + 1]>>

\* date_updated counts the minutes of the first hour of 2026-01-01;
\* strftime('%Y-%m-%d %H:%M') prints it
strftime(t) ==
  <<"2","0","2","6","-","0","1","-","0","1"," ","0","0",":">> \o (IF t < 10 THEN <<"0">> ELSE <<>>) \o str_int(t)

\* Book rows (books/models.py): title, author, genre, publication_year (0: null)
Books ==
  [ b1 |-> [title |-> <<"E","r","a","g","o","n">>, author |-> <<"P","a","o","l","i","n","i">>,
            genre |-> <<"F","a","n","t","a","s","y">>, publication_year |-> 2002],
    b2 |-> [title |-> <<"H","o","b","b","i","t">>, author |-> <<"T","o","l","k","i","e","n">>,
            genre |-> <<"F","a","n","t","a","s","y">>, publication_year |-> 0],
    b3 |-> [title |-> <<"D","u","n","e">>, author |-> <<"H","e","r","b","e","r","t">>,
            genre |-> <<"S","c","i","-","F","i">>, publication_year |-> 1965] ]

\* add_user_book_to_vectorstore: the text embedded for a tracked book.
\* x or 'unknown' takes the default for None and for 0 alike.
doc_text(instance) ==
  LET book == Books[instance.book] IN
    <<"B","o","o","k",":"," ">> \o book.title \o <<" ","b","y"," ">> \o book.author
    \o <<"."," ","G","e","n","r","e",":"," ">> \o book.genre
    \o <<"."," ","Y","e","a","r",":"," ">>
    \o (IF book.publication_year = 0 THEN <<"u","n","k","n","o","w","n">>
        ELSE str_int(book.publication_year))
    \o <<"."," ","S","t","a","t","u","s",":"," ">> \o status_text(instance.status)
    \o <<"."," ","R","a","t","i","n","g",":"," ">>
    \o (IF instance.rating = 0 THEN <<"N","o","n","e">> ELSE str_int(instance.rating))
    \o <<"."," ","N","o","t","e","s",":"," ">>
    \o (IF instance.notes = <<>> THEN <<"N","o"," ","n","o","t","e","s">> ELSE instance.notes)
    \o <<"."," ","L","a","s","t"," ","u","p","d","a","t","e","d",":"," ">> \o strftime(instance.date_updated) \o <<".">>

\* The tracked books the runs draw from: UserBook rows (unique per user and
\* book) with the embedding stored for each
UserBooks ==
  << [user |-> "u1", book |-> "b1", status |-> "read", rating |-> 5,
      notes |-> <<>>, date_updated |-> 2, embedding |-> <<1, 0>>],
     [user |-> "u1", book |-> "b2", status |-> "reading", rating |-> 0,
      notes |-> <<"o", "k">>, date_updated |-> 3, embedding |-> <<1, 0>>],
     [user |-> "u1", book |-> "b3", status |-> "read", rating |-> 4,
      notes |-> <<>>, date_updated |-> 2, embedding |-> <<0, 1>>],
     [user |-> "u2", book |-> "b1", status |-> "read", rating |-> 3,
      notes |-> <<>>, date_updated |-> 4, embedding |-> <<1, 1>>],
     [user |-> "u2", book |-> "b3", status |-> "read", rating |-> 0,
      notes |-> <<>>, date_updated |-> 1, embedding |-> <<0, 0>>] >>

\* The most documents a corpus of a run holds
MaxDocs == 3

\* BookEmbedding row number i (its primary key): the document of UserBooks[i]
Row(i) ==
  LET ub == UserBooks[i] IN
    [id |-> i, user |-> ub.user, content |-> doc_text(ub),
     embedding |-> ub.embedding, status |-> ub.status,
     genre |-> Books[ub.book].genre, date_updated |-> ub.date_updated]

Rows == [i \in 1..Len(UserBooks) |-> Row(i)]

Corpora == {c \in SUBSET (1..Len(UserBooks)) : Cardinality(c) <= MaxDocs}

(***************************************************************************)
(* Embeddings and cosine distance                                          *)
(***************************************************************************)
\* EMBEDDING_DIMENSIONS is read from the environment; the runs use 2
EMBEDDING_DIM == 2

\* [0.0] * EMBEDDING_DIM
ZeroVector == [i \in 1..EMBEDDING_DIM |-> 0]

\* What the embedding service answers for a query
QueryVectors == {<<1, 0>>, <<0, 1>>}

StoredVectors == {UserBooks[i].embedding : i \in 1..Len(UserBooks)}

\* A distance that is not a number: 0/0 for a vector of norm zero. It sorts
\* after every number and equals itself (PostgreSQL float8 ordering).
NaN == -1

dot(a, b) == LET s[i \in 0..Len(a)] == IF i = 0 THEN 0 ELSE s[i - 1] + a[i] * b[i]
             IN s[Len(a)]

\* pgvector's cosine distance 1 - a.b / sqrt(|a|^2 |b|^2), in thousandths
\* (rounded down similarity), for vectors with non-negative components
cosine_distance(a, b) ==
  LET na == dot(a, a)
      nb == dot(b, b)
      ab == dot(a, b)
  IN IF na * nb = 0 THEN NaN
     ELSE 1000 - (CHOOSE s \in 0..1000 :
                    /\ s * s * na * nb <= ab * ab * 1000000
                    /\ (s = 1000 \/ (s + 1) * (s + 1) * na * nb > ab * ab * 1000000))

CosineDistanceTable ==
  [a \in StoredVectors, b \in QueryVectors \cup {ZeroVector} |-> cosine_distance(a, b)]

CosineDistance(embedding, v) == CosineDistanceTable[embedding, v]

\* ORDER BY distance: a <= b in the order of the database
distance_le(a, b) == b = NaN \/ (a # NaN /\ a <= b)

(***************************************************************************)
(* Querysets                                                               *)
(***************************************************************************)
\* The sequences that list every element of S once
Orderings(S) ==
  {f \in [1..Cardinality(S) -> S] : \A i, j \in 1..Cardinality(S) : i # j => f[i] # f[j]}

\* s[:n]
Take(s, n) == SubSeq(s, 1, IF n < Len(s) THEN n ELSE Len(s))

\* field__icontains=needle: case-insensitive containment
icontains(field, needle) == Contains(lower(field), lower(needle))

\* "sep".join(parts)
RECURSIVE join(_, _)
join(sep, parts) ==
  IF parts = <<>> THEN <<>>
  ELSE IF Len(parts) = 1 THEN parts[1]
  ELSE parts[1] \o sep \o join(sep, Tail(parts))

\* "\n\n".join(r.content for r in docs), docs a sequence of row ids
context_of(docs) == join(<<"\n", "\n">>, [i \in 1..Len(docs) |-> Rows[docs[i]].content])

\* recency_qs of get_context: the owner's rows of the asked status, read by default
recency_qs(c, u, sf) ==
  {i \in c : /\ Rows[i].user = u
             /\ Rows[i].status = (IF sf # None THEN sf ELSE "read")}

\* order_by("-user_book__date_updated"): rows of equal date come in any order
order_by_date_updated_desc(S) ==
  {f \in Orderings(S) :
     \A i, j \in 1..Cardinality(S) :
       i < j => Rows[f[i]].date_updated >= Rows[f[j]].date_updated}

\* Faulty variant of base_qs: the hard filters without the owner filter
base_qs_any_user(c, u, sf, gf) ==
  {i \in c : /\ (sf # None => Rows[i].status = sf)
             /\ (gf # <<>> => icontains(Rows[i].genre, gf))}

\* base_qs of get_context: the owner's rows that pass the hard filters
base_qs(c, u, sf, gf) ==
  {i \in c : /\ Rows[i].user = u
             /\ (sf # None => Rows[i].status = sf)
             /\ (gf # <<>> => icontains(Rows[i].genre, gf))}

\* The over-retrieval limit of the vector search
OVER_RETRIEVE == 12

\* base_qs.annotate(distance=CosineDistance("embedding", vec))
\*        .order_by("distance")[:12]
\* Each result is a row with its distance; rows of equal distance come in any order.
vector_search(S, v) ==
  {Take([j \in 1..Cardinality(S) |->
           [id |-> f[j], distance |-> CosineDistance(Rows[f[j]].embedding, v)]],
        OVER_RETRIEVE) :
     f \in {g \in Orderings(S) :
              \A i, j \in 1..Cardinality(S) :
                i < j => distance_le(CosineDistance(Rows[g[i]].embedding, v),
                                     CosineDistance(Rows[g[j]].embedding, v))}}

(***************************************************************************)
(* Query expansion                                                         *)
(***************************************************************************)
Whitespace == {" ", "\n", "\t"}

\* str.strip()
RECURSIVE strip(_)
strip(s) ==
  IF s = <<>> THEN s
  ELSE IF Head(s) \in Whitespace THEN strip(Tail(s))
  ELSE IF s[Len(s)] \in Whitespace THEN strip(SubSeq(s, 1, Len(s) - 1))
  ELSE s

\* str.split(c) for a one-character separator
RECURSIVE split(_, _)
split(s, c) ==
  IF \E i \in 1..Len(s) : s[i] = c
    THEN LET i == CHOOSE n \in 1..Len(s) : s[n] = c /\ \A m \in 1..(n - 1) : s[m] # c
         IN <<SubSeq(s, 1, i - 1)>> \o split(SubSeq(s, i + 1, Len(s)), c)
    ELSE <<s>>

\* The cap on the number of rewritten queries
MAX_QUERIES == 3

\* [q.strip() for q in rewritten.split("\n") if q.strip()][:3]
parse_queries(text) ==
  LET lines == split(text, "\n")
      stripped == [i \in 1..Len(lines) |-> strip(lines[i])]
  IN Take(SelectSeq(stripped, LAMBDA q : q # <<>>), MAX_QUERIES)

\* Faulty variant of expand: the parsed lines without the cap
expand_no_cap(q, text) ==
  LET lines == split(text, "\n")
      stripped == [i \in 1..Len(lines) |-> strip(lines[i])]
      qs == SelectSeq(stripped, LAMBDA x : x # <<>>)
  IN IF qs = <<>> THEN <<q>> ELSE qs

\* queries after the rewrite step: the parsed lines, or the question itself
\* when the response has no usable line
expand(q, text) ==
  LET qs == parse_queries(text) IN IF qs = <<>> THEN <<q>> ELSE qs

(***************************************************************************)
(* Deduplication and reranking                                             *)
(***************************************************************************)
\* Faulty variant of dict_set: a key already present keeps its first value
dict_keep_first(d, r) ==
  IF \E j \in 1..Len(d) : d[j].id = r.id THEN d ELSE Append(d, r)

\* One step of the dict comprehension {r.id: r ...}: a new key is appended, a
\* key already present keeps its place and takes the new value
dict_set(d, r) ==
  IF \E j \in 1..Len(d) : d[j].id = r.id
    THEN [j \in 1..Len(d) |-> IF d[j].id = r.id THEN r ELSE d[j]]
    ELSE Append(d, r)

\* {r.id: r for r in all_docs}.values()
RECURSIVE deduplicate(_)
deduplicate(docs) ==
  IF docs = <<>> THEN <<>>
  ELSE dict_set(deduplicate(SubSeq(docs, 1, Len(docs) - 1)), docs[Len(docs)])

\* Characters for which str.isdigit() holds: the decimal digits and digits
\* such as the superscript two, written "sup2" here
SuperscriptDigits == {"sup2"}

DecimalDigitSet == {DecimalDigits[i] : i \in 1..Len(DecimalDigits)}

isdigit(s) ==
  /\ s # <<>>
  /\ \A i \in 1..Len(s) : s[i] \in DecimalDigitSet \cup SuperscriptDigits

\* int(s) raises ValueError unless every character is a decimal digit
int_raises(s) == \E i \in 1..Len(s) : s[i] \notin DecimalDigitSet

digit_value(c) == (CHOOSE i \in 1..Len(DecimalDigits) : DecimalDigits[i] = c) - 1

RECURSIVE int(_)
int(s) ==
  IF s = <<>> THEN 0
  ELSE 10 * int(SubSeq(s, 1, Len(s) - 1)) + digit_value(s[Len(s)])

\* The score given when the judge's answer is not a digit string
PARSE_FALLBACK_SCORE == 5

\* The score given when the rerank step raises
CALL_FALLBACK_SCORE == 3

\* Faulty variant of score: every fallback is the parse fallback
score_same_fallback(reply) ==
  IF ~reply.ok THEN PARSE_FALLBACK_SCORE
  ELSE LET raw_score == strip(reply.text) IN
    IF isdigit(raw_score)
      THEN IF int_raises(raw_score) THEN PARSE_FALLBACK_SCORE ELSE int(raw_score)
      ELSE PARSE_FALLBACK_SCORE

\* The score of one candidate (body of the rerank loop): reply.ok says whether
\* the judge call returned, reply.text what it returned. An int() that raises
\* is caught by the same except as a failed call.
score(reply) ==
  IF ~reply.ok THEN CALL_FALLBACK_SCORE
  ELSE LET raw_score == strip(reply.text) IN
    IF isdigit(raw_score)
      THEN IF int_raises(raw_score) THEN CALL_FALLBACK_SCORE ELSE int(raw_score)
      ELSE PARSE_FALLBACK_SCORE

\* Faulty variant of sort_desc: descending by score, entries of equal score
\* in reverse order
RECURSIVE sort_desc_ties_reversed(_)
sort_desc_ties_reversed(s) ==
  IF s = <<>> THEN <<>>
  ELSE LET rest == sort_desc_ties_reversed(SubSeq(s, 1, Len(s) - 1))
           x == s[Len(s)]
           n == Cardinality({i \in 1..Len(rest) : rest[i].score > x.score})
       IN SubSeq(rest, 1, n) \o <<x>> \o SubSeq(rest, n + 1, Len(rest))

\* list.sort(key=lambda x: x[0], reverse=True): stable, descending by score
RECURSIVE sort_desc(_)
sort_desc(s) ==
  IF s = <<>> THEN <<>>
  ELSE LET rest == sort_desc(SubSeq(s, 1, Len(s) - 1))
           x == s[Len(s)]
           n == Cardinality({i \in 1..Len(rest) : rest[i].score >= x.score})
       IN SubSeq(rest, 1, n) \o <<x>> \o SubSeq(rest, n + 1, Len(rest))

(***************************************************************************)
(* Inputs and collaborator responses                                       *)
(***************************************************************************)
\* "What fantasy books have I read?"
Q_fantasy_read == <<"W","h","a","t"," ","f","a","n","t","a","s","y"," ","b","o","o","k","s"," ","h","a","v","e"," ","I"," ","r","e","a","d","?">>
\* "What was the last book I finished?"
Q_last_finished == <<"W","h","a","t"," ","w","a","s"," ","t","h","e"," ","l","a","s","t"," ","b","o","o","k"," ","I"," ","f","i","n","i","s","h","e","d","?">>
\* "What am I currently reading?"
Q_currently_reading == <<"W","h","a","t"," ","a","m"," ","I"," ","c","u","r","r","e","n","t","l","y"," ","r","e","a","d","i","n","g","?">>
\* "Recommend a book"
Q_recommend == <<"R","e","c","o","m","m","e","n","d"," ","a"," ","b","o","o","k">>
\* "Which is my latest book?"
Q_latest_book == <<"W","h","i","c","h"," ","i","s"," ","m","y"," ","l","a","t","e","s","t"," ","b","o","o","k","?">>
\* "Which Sci-Fi books do I own?"
Q_scifi == <<"W","h","i","c","h"," ","S","c","i","-","F","i"," ","b","o","o","k","s"," ","d","o"," ","I"," ","o","w","n","?">>
\* "latest book I am still reading"
Q_latest_still_reading == <<"l","a","t","e","s","t"," ","b","o","o","k"," ","I"," ","a","m"," ","s","t","i","l","l"," ","r","e","a","d","i","n","g">>

\* The questions asked of get_context
Questions ==
  {Q_fantasy_read, Q_last_finished, Q_currently_reading, Q_recommend,
   Q_latest_book, Q_scifi, Q_latest_still_reading}

\* The default of get_context's k
DEFAULT_K == 6

\* The largest non-default k a run is called with
MaxK == 1

Ks == (1..MaxK) \cup {DEFAULT_K}

\* Fragments the classifier's questions are put together from
F_Currently_Reading == <<"C","u","r","r","e","n","t","l","y"," ","R","e","a","d","i","n","g">>
F_still_reading == <<"s","t","i","l","l"," ","r","e","a","d","i","n","g">>
F_finished == <<"f","i","n","i","s","h","e","d">>
F_have_read == <<"h","a","v","e"," ","r","e","a","d">>
F_want_to_read == <<"w","a","n","t"," ","t","o"," ","r","e","a","d">>
F_last_book == <<"l","a","s","t"," ","b","o","o","k">>
F_have_I_read == <<"h","a","v","e"," ","I"," ","r","e","a","d">>
F_Sci_Fi == <<"S","c","i","-","F","i">>
F_sci_fi == <<"s","c","i"," ","f","i">>
F_fantasy == <<"F","a","n","t","a","s","y">>
F_books == <<"b","o","o","k","s">>

Fragments ==
  {F_Currently_Reading, F_still_reading, F_finished, F_have_read,
   F_want_to_read, F_last_book, F_have_I_read, F_Sci_Fi, F_sci_fi, F_fantasy,
   F_books}

\* The most fragments in a question given to the classifier
MaxFragments == 2

\* The classifier's questions: up to MaxFragments fragments, space-separated
ClassifierQuestions ==
  UNION {{join(<<" ">>, fs) : fs \in [1..n -> Fragments]} : n \in 1..MaxFragments}

\* What a language-model call gives: a text, or a failure (ok = FALSE)
Reply(text) == [ok |-> TRUE, text |-> text]
CallFailed == [ok |-> FALSE, text |-> <<>>]

\* No call made yet
NoReply == [ok |-> FALSE, text |-> <<"-">>]

\* Responses of the rewrite call: no line, two padded lines around a blank
\* one, four lines
RewriteTexts ==
  {<<>>,
   <<" ","a"," ","\n","\n","b"," ">>,
   <<"a","\n","b","\n","c","\n","d">>}

\* Responses of the judge call: " 9\n", "42", "n/a" and a superscript two
JudgeTexts ==
  {<<" ","9","\n">>, <<"4","2">>, <<"n","/","a">>, <<"sup2">>}

\* Collaborator responses fixed for a repeated run: every call of a kind gets
\* the same answer (an _ok field FALSE: that call fails). NoScript leaves
\* every response open.
NoScript ==
  [fixed |-> FALSE, rewrite |-> CallFailed, embed_ok |-> FALSE,
   embedding |-> ZeroVector, search_ok |-> FALSE, list_ok |-> FALSE,
   judge |-> CallFailed]

AllAnswer ==
  [fixed |-> TRUE, rewrite |-> Reply(<<" ","a"," ","\n","\n","b"," ">>), embed_ok |-> TRUE,
   embedding |-> <<1, 0>>, search_ok |-> TRUE, list_ok |-> TRUE,
   judge |-> Reply(<<"4", "2">>)]

Scripts ==
  {AllAnswer,
   [AllAnswer EXCEPT !.embed_ok = FALSE, !.embedding = ZeroVector],
   [AllAnswer EXCEPT !.judge = CallFailed],
   [AllAnswer EXCEPT !.rewrite = CallFailed, !.search_ok = FALSE, !.list_ok = FALSE]}

NoRun == [ran |-> FALSE, raised |-> FALSE, result |-> <<>>]

NoIntent == [is_recency |-> FALSE, status_filter |-> None, genre_filter |-> <<>>]

NoCalls == [embed |-> 0, search |-> 0, llm |-> 0, list |-> 0]

(***************************************************************************)
(* get_context, step by step                                               *)
(***************************************************************************)
Locals == <<status_filter, genre_filter, queries, qi, vec, all_docs, unique,
            ranked, judged, top_docs, result, searched, rewritten, searches>>

Tables == <<user_books, book_embeddings, next_id, now>>

Inputs == <<corpus, user, question, k, script, first, intent, Tables>>

\* The tables of a run that makes no write
EmptyTables ==
  /\ user_books = {}
  /\ book_embeddings = {}
  /\ next_id = 1
  /\ now = 0

InitLocals ==
  /\ status_filter = None
  /\ genre_filter = <<>>
  /\ queries = <<>>
  /\ qi = 0
  /\ vec = <<>>
  /\ all_docs = <<>>
  /\ unique = <<>>
  /\ ranked = <<>>
  /\ judged = <<>>
  /\ top_docs = <<>>
  /\ result = <<>>
  /\ searched = <<>>
  /\ rewritten = NoReply
  /\ searches = <<>>
  /\ calls = NoCalls

\* A service built for a user, about to answer a question over a corpus
Init ==
  /\ corpus \in Corpora
  /\ user \in Users
  /\ question \in Questions
  /\ k \in Ks
  /\ pc = "start"
  /\ script = NoScript
  /\ first = NoRun
  /\ intent = NoIntent
  /\ EmptyTables
  /\ InitLocals

\* Faulty variant of the entry: the recency short-circuit is never taken
GetContextNoShortCircuit ==
  /\ pc = "start"
  /\ status_filter' = _parse_status_filter(question)
  /\ genre_filter' = _parse_genre_filter(question)
  /\ pc' = "rewrite"
  /\ UNCHANGED <<queries, qi, vec, all_docs, unique, ranked, judged, top_docs,
                 result, searched, rewritten, searches, calls, Inputs>>

\* Entry of get_context: the recency test and the filters
GetContext ==
  /\ pc = "start"
  /\ IF _is_recency_query(question)
       THEN /\ status_filter' = _parse_status_filter(question)
            /\ genre_filter' = genre_filter
            /\ pc' = "recency"
       ELSE /\ status_filter' = _parse_status_filter(question)
            /\ genre_filter' = _parse_genre_filter(question)
            /\ pc' = "rewrite"
  /\ UNCHANGED <<queries, qi, vec, all_docs, unique, ranked, judged, top_docs,
                 result, searched, rewritten, searches, calls, Inputs>>

\* Faulty variant of the recency listing: dates in ascending order
RecencyListAscending ==
  /\ pc = "recency"
  /\ script.fixed => script.list_ok
  /\ \E order \in order_by_date_updated_desc(recency_qs(corpus, user, status_filter)) :
       LET recent_docs == Take([i \in 1..Len(order) |-> order[Len(order) + 1 - i]], k) IN
         /\ top_docs' = recent_docs
         /\ result' = context_of(recent_docs)
  /\ calls' = [calls EXCEPT !.list = @ + 1]
  /\ pc' = "done"
  /\ UNCHANGED <<status_filter, genre_filter, queries, qi, vec, all_docs, unique,
                 ranked, judged, searched, rewritten, searches, Inputs>>

\* Recency mode: list(recency_qs.order_by("-user_book__date_updated")[:k])
\* and the return of the joined contents
RecencyList ==
  /\ pc = "recency"
  /\ script.fixed => script.list_ok
  /\ \E order \in order_by_date_updated_desc(recency_qs(corpus, user, status_filter)) :
       LET recent_docs == Take(order, k) IN
         /\ top_docs' = recent_docs
         /\ result' = context_of(recent_docs)
  /\ calls' = [calls EXCEPT !.list = @ + 1]
  /\ pc' = "done"
  /\ UNCHANGED <<status_filter, genre_filter, queries, qi, vec, all_docs, unique,
                 ranked, judged, searched, rewritten, searches, Inputs>>

\* Recency mode: the listing raises (a database error); nothing catches it
RecencyListFails ==
  /\ pc = "recency"
  /\ script.fixed => ~script.list_ok
  /\ calls' = [calls EXCEPT !.list = @ + 1]
  /\ pc' = "raised"
  /\ UNCHANGED <<Locals, Inputs>>

\* The rewrite call returns a text
Rewrite ==
  /\ pc = "rewrite"
  /\ \E text \in RewriteTexts :
       /\ script.fixed => (script.rewrite = Reply(text))
       /\ rewritten' = Reply(text)
       /\ queries' = expand(question, text)
  /\ calls' = [calls EXCEPT !.llm = @ + 1]
  /\ pc' = "search"
  /\ UNCHANGED <<status_filter, genre_filter, qi, vec, all_docs, unique, ranked,
                 judged, top_docs, result, searched, searches, Inputs>>

\* The rewrite call raises: the question is the only query
RewriteFails ==
  /\ pc = "rewrite"
  /\ script.fixed => (script.rewrite = CallFailed)
  /\ rewritten' = CallFailed
  /\ queries' = <<question>>
  /\ calls' = [calls EXCEPT !.llm = @ + 1]
  /\ pc' = "search"
  /\ UNCHANGED <<status_filter, genre_filter, qi, vec, all_docs, unique, ranked,
                 judged, top_docs, result, searched, searches, Inputs>>

\* _embed_text(q, is_query=True), the embedding service answering
Embed ==
  /\ pc = "search"
  /\ qi < Len(queries)
  /\ \E v \in QueryVectors :
       /\ script.fixed => (script.embed_ok /\ script.embedding = v)
       /\ vec' = v
  /\ calls' = [calls EXCEPT !.embed = @ + 1]
  /\ pc' = "query"
  /\ UNCHANGED <<status_filter, genre_filter, queries, qi, all_docs, unique,
                 ranked, judged, top_docs, result, searched, rewritten, searches, Inputs>>

\* _embed_text(q, is_query=True), the embedding service failing
EmbedFails ==
  /\ pc = "search"
  /\ qi < Len(queries)
  /\ script.fixed => ~script.embed_ok
  /\ vec' = ZeroVector
  /\ calls' = [calls EXCEPT !.embed = @ + 1]
  /\ pc' = "query"
  /\ UNCHANGED <<status_filter, genre_filter, queries, qi, all_docs, unique,
                 ranked, judged, top_docs, result, searched, rewritten, searches, Inputs>>

\* The filtered nearest-neighbour search of one query, added to all_docs
VectorSearch ==
  /\ pc = "query"
  /\ script.fixed => script.search_ok
  /\ \E results \in vector_search(base_qs(corpus, user, status_filter, genre_filter), vec) :
       /\ all_docs' = all_docs \o results
       /\ searches' = Append(searches, [embedded |-> (vec # ZeroVector), ok |-> TRUE, results |-> results])
  /\ searched' = Append(searched, TRUE)
  /\ qi' = qi + 1
  /\ calls' = [calls EXCEPT !.search = @ + 1]
  /\ pc' = "search"
  /\ UNCHANGED <<status_filter, genre_filter, queries, vec, unique, ranked,
                 judged, top_docs, result, rewritten, Inputs>>

\* Faulty variant of VectorSearchFails: the failure ends the search loop and
\* drops what the earlier queries gave
VectorSearchFailsAborts ==
  /\ pc = "query"
  /\ script.fixed => ~script.search_ok
  /\ searched' = Append(searched, FALSE)
  /\ searches' = Append(searches, [embedded |-> (vec # ZeroVector), ok |-> FALSE, results |-> <<>>])
  /\ all_docs' = <<>>
  /\ qi' = Len(queries)
  /\ calls' = [calls EXCEPT !.search = @ + 1]
  /\ pc' = "search"
  /\ UNCHANGED <<status_filter, genre_filter, queries, vec, unique,
                 ranked, judged, top_docs, result, rewritten, Inputs>>

\* The search of one query raises: logged, the loop goes on
VectorSearchFails ==
  /\ pc = "query"
  /\ script.fixed => ~script.search_ok
  /\ searched' = Append(searched, FALSE)
  /\ searches' = Append(searches, [embedded |-> (vec # ZeroVector), ok |-> FALSE, results |-> <<>>])
  /\ qi' = qi + 1
  /\ calls' = [calls EXCEPT !.search = @ + 1]
  /\ pc' = "search"
  /\ UNCHANGED <<status_filter, genre_filter, queries, vec, all_docs, unique,
                 ranked, judged, top_docs, result, rewritten, Inputs>>

\* unique = {r.id: r for r in all_docs}.values()
Deduplicate ==
  /\ pc = "search"
  /\ qi = Len(queries)
  /\ unique' = deduplicate(all_docs)
  /\ pc' = "candidates"
  /\ UNCHANGED <<status_filter, genre_filter, queries, qi, vec, all_docs, ranked,
                 judged, top_docs, result, searched, rewritten, searches, calls, Inputs>>

\* _log_retrieved_docs(unique, ...); all_docs, vec, the rewrite response and
\* the per-query results are not read again
LogCandidates ==
  /\ pc = "candidates"
  /\ all_docs' = <<>>
  /\ vec' = <<>>
  /\ rewritten' = NoReply
  /\ searches' = <<>>
  /\ pc' = "rerank"
  /\ UNCHANGED <<status_filter, genre_filter, queries, qi, unique, ranked, judged,
                 top_docs, result, searched, calls, Inputs>>

\* The judge call for the next candidate returns a text
Judge ==
  /\ pc = "rerank"
  /\ Len(ranked) < Len(unique)
  /\ \E text \in JudgeTexts :
       /\ script.fixed => (script.judge = Reply(text))
       /\ ranked' = Append(ranked, [score |-> score(Reply(text)),
                                    doc |-> unique[Len(ranked) + 1]])
       /\ judged' = Append(judged, Reply(text))
  /\ calls' = [calls EXCEPT !.llm = @ + 1]
  /\ UNCHANGED <<pc, status_filter, genre_filter, queries, qi, vec, all_docs,
                 unique, top_docs, result, searched, rewritten, searches, Inputs>>

\* The judge call for the next candidate raises
JudgeFails ==
  /\ pc = "rerank"
  /\ Len(ranked) < Len(unique)
  /\ script.fixed => (script.judge = CallFailed)
  /\ ranked' = Append(ranked, [score |-> score(CallFailed),
                               doc |-> unique[Len(ranked) + 1]])
  /\ judged' = Append(judged, CallFailed)
  /\ calls' = [calls EXCEPT !.llm = @ + 1]
  /\ UNCHANGED <<pc, status_filter, genre_filter, queries, qi, vec, all_docs,
                 unique, top_docs, result, searched, rewritten, searches, Inputs>>

\* ranked.sort(...); top_docs = ranked[:k]; return the joined contents
SortAndJoin ==
  /\ pc = "rerank"
  /\ Len(ranked) = Len(unique)
  /\ LET sorted == sort_desc(ranked)
         top == Take(sorted, k)
     IN /\ ranked' = sorted
        /\ top_docs' = [i \in 1..Len(top) |-> top[i].doc.id]
  /\ result' = context_of(top_docs')
  /\ pc' = "done"
  /\ UNCHANGED <<status_filter, genre_filter, queries, qi, vec, all_docs, unique,
                 judged, searched, rewritten, searches, calls, Inputs>>

Next ==
  \/ GetContext
  \/ RecencyList
  \/ RecencyListFails
  \/ Rewrite
  \/ RewriteFails
  \/ Embed
  \/ EmbedFails
  \/ VectorSearch
  \/ VectorSearchFails
  \/ Deduplicate
  \/ LogCandidates
  \/ Judge
  \/ JudgeFails
  \/ SortAndJoin

Spec == Init /\ [][Next]_vars

(***************************************************************************)
(* The same call made twice, the collaborators answering alike             *)
(***************************************************************************)
InitRepeat ==
  /\ corpus \in Corpora
  /\ user \in Users
  /\ question \in Questions
  /\ k \in Ks
  /\ pc = "start"
  /\ script \in Scripts
  /\ first = NoRun
  /\ intent = NoIntent
  /\ EmptyTables
  /\ InitLocals

\* A second get_context call with the question, k, owner and corpus of the
\* first, whose outcome is kept
Rerun ==
  /\ pc \in {"done", "raised"}
  /\ ~first.ran
  /\ first' = [ran |-> TRUE, raised |-> (pc = "raised"), result |-> result]
  /\ pc' = "start"
  /\ status_filter' = None
  /\ genre_filter' = <<>>
  /\ queries' = <<>>
  /\ qi' = 0
  /\ vec' = <<>>
  /\ all_docs' = <<>>
  /\ unique' = <<>>
  /\ ranked' = <<>>
  /\ judged' = <<>>
  /\ top_docs' = <<>>
  /\ result' = <<>>
  /\ searched' = <<>>
  /\ rewritten' = NoReply
  /\ searches' = <<>>
  /\ calls' = NoCalls
  /\ UNCHANGED <<corpus, user, question, k, script, intent, Tables>>

NextRepeat == Next \/ Rerun

SpecRepeat == InitRepeat /\ [][NextRepeat]_vars

(***************************************************************************)
(* The classifier alone, over questions put together from fragments        *)
(***************************************************************************)
InitClassify ==
  /\ corpus = {}
  /\ user = "u1"
  /\ question \in ClassifierQuestions
  /\ k = DEFAULT_K
  /\ pc = "classify"
  /\ script = NoScript
  /\ first = NoRun
  /\ intent = NoIntent
  /\ EmptyTables
  /\ InitLocals

\* The three classifier functions applied to the question
Classify ==
  /\ pc = "classify"
  /\ intent' = [is_recency |-> _is_recency_query(question),
                status_filter |-> _parse_status_filter(question),
                genre_filter |-> _parse_genre_filter(question)]
  /\ pc' = "classified"
  /\ UNCHANGED <<corpus, user, question, k, script, first, Locals, calls, Tables>>

NextClassify == Classify

SpecClassify == InitClassify /\ [][NextClassify]_vars

(***************************************************************************)
(* The tracked books and their documents: the views that write UserBook    *)
(* rows and the post_save hook that keeps BookEmbedding                    *)
(***************************************************************************)
\* How far the clock of a lifecycle run goes
MaxClock == 3

\* Values a save may carry: rating (0: null) and notes
Ratings == {0, 4}

NotesTexts == {<<>>, <<"o", "k">>}

\* BookEmbedding.objects.update_or_create(user_book=instance, defaults=...):
\* the row of the record is replaced, or added
update_or_create(embs, instance, vector) ==
  {e \in embs : e.user_book # instance.id}
    \cup {[user_book |-> instance.id, user |-> instance.user,
           content |-> doc_text(instance), embedding |-> vector]}

\* embed_user_book (post_save receiver): the BookEmbedding tables it may
\* leave. An update with an empty status is skipped; otherwise the record is
\* embedded (the zero vector when the embedding service fails) and upserted,
\* and an exception of the upsert is logged and dropped.
embed_user_book(embs, instance, created) ==
  IF ~created /\ instance.status = "" THEN {embs}
  ELSE {update_or_create(embs, instance, vector) : vector \in QueryVectors \cup {ZeroVector}}
         \cup {embs}

\* UserBookForm.is_valid(): a status of the choices, a rating only for a read
\* book, notes only for a book being read or read
is_valid(status, rating, notes) ==
  /\ status \in STATUS_CHOICES
  /\ rating # 0 => status = "read"
  /\ notes # <<>> => status \in {"reading", "read"}

\* UserBook.save() of an existing row: date_updated is set to the time of the
\* save (auto_now), then post_save runs the hook
save(ub, status, rating, notes) ==
  /\ now < MaxClock
  /\ now' = now + 1
  /\ LET instance == [ub EXCEPT !.status = status, !.rating = rating,
                                !.notes = notes, !.date_updated = now + 1]
     IN /\ user_books' = (user_books \ {ub}) \cup {instance}
        /\ book_embeddings' \in embed_user_book(book_embeddings, instance, FALSE)
  /\ UNCHANGED next_id

InitLifecycle ==
  /\ corpus = {}
  /\ user = "u1"
  /\ question = Q_recommend
  /\ k = DEFAULT_K
  /\ pc = "shelf"
  /\ script = NoScript
  /\ first = NoRun
  /\ intent = NoIntent
  /\ EmptyTables
  /\ InitLocals

\* add_to_shelf: get_or_create of the requester's row for the book; a new row
\* is saved with the default status and the hook runs with created = True
add_to_shelf ==
  /\ pc = "shelf"
  /\ \E u \in Users, b \in DOMAIN Books :
       /\ ~\E ub \in user_books : ub.user = u /\ ub.book = b
       /\ now < MaxClock
       /\ now' = now + 1
       /\ LET instance == [id |-> next_id, user |-> u, book |-> b,
                           status |-> "want_to_read", rating |-> 0,
                           notes |-> <<>>, date_updated |-> now + 1]
          IN /\ user_books' = user_books \cup {instance}
             /\ book_embeddings' \in embed_user_book(book_embeddings, instance, TRUE)
       /\ next_id' = next_id + 1
  /\ UNCHANGED <<corpus, user, question, k, pc, script, first, intent, Locals, calls>>

\* edit_user_book (POST): the requester's own row is saved when the form is valid
edit_user_book ==
  /\ pc = "shelf"
  /\ \E ub \in user_books, status \in STATUS_CHOICES, rating \in Ratings, notes \in NotesTexts :
       /\ is_valid(status, rating, notes)
       /\ save(ub, status, rating, notes)
  /\ UNCHANGED <<corpus, user, question, k, pc, script, first, intent, Locals, calls>>

\* A save of an existing row that does not come from the form (models.py puts
\* no validation on save): any field values, the status possibly empty
save_user_book ==
  /\ pc = "shelf"
  /\ \E ub \in user_books, status \in STATUS_CHOICES \cup {""}, rating \in Ratings, notes \in NotesTexts :
       save(ub, status, rating, notes)
  /\ UNCHANGED <<corpus, user, question, k, pc, script, first, intent, Locals, calls>>

\* remove_user_book: the requester's own row is deleted, and with it
\* (on_delete=CASCADE) its BookEmbedding row
remove_user_book ==
  /\ pc = "shelf"
  /\ \E ub \in user_books :
       /\ user_books' = user_books \ {ub}
       /\ book_embeddings' = {e \in book_embeddings : e.user_book # ub.id}
  /\ UNCHANGED <<next_id, now>>
  /\ UNCHANGED <<corpus, user, question, k, pc, script, first, intent, Locals, calls>>

NextLifecycle ==
  \/ add_to_shelf
  \/ edit_user_book
  \/ save_user_book
  \/ remove_user_book

SpecLifecycle == InitLifecycle /\ [][NextLifecycle]_vars

(***************************************************************************)
(* Properties                                                              *)
(***************************************************************************)
\* The questions of the pipeline runs that match a recency phrase
RecencyQuestions == {q \in Questions : any_in(recency_phrases, lower(q))}

\* The owner's documents in the corpus
OwnDocs == {i \in corpus : Rows[i].user = user}

Range(f) == {f[i] : i \in DOMAIN f}

\* C1: a question that contains "currently reading" or "still reading", in
\* any letter case, is classified status_filter = reading, whatever other
\* status phrases it contains.
C1_ReadingPrecedence ==
  (/\ pc = "classified"
   /\ \/ Contains(lower(question), <<"c","u","r","r","e","n","t","l","y"," ","r","e","a","d","i","n","g">>)
      \/ Contains(lower(question), <<"s","t","i","l","l"," ","r","e","a","d","i","n","g">>))
  => intent.status_filter = "reading"

\* C1 witness: a classified question with "Currently Reading" and "finished"
C1_Witness ==
  /\ pc = "classified"
  /\ Contains(question, F_Currently_Reading)
  /\ Contains(question, F_finished)
  /\ intent.status_filter = "reading"

\* C2: a run whose question matches a recency phrase makes no call to the
\* embedding service, the vector search or the language model; it lists the
\* corpus once and is then over.
C2_RecencyBypassesSemanticRetrieval ==
  question \in RecencyQuestions =>
    /\ calls.embed = 0
    /\ calls.search = 0
    /\ calls.llm = 0
    /\ pc \in {"start", "recency", "done", "raised"}
    /\ calls.list = (IF pc \in {"done", "raised"} THEN 1 ELSE 0)

\* C2 witness: a recency run that returned documents
C2_Witness ==
  /\ question \in RecencyQuestions
  /\ pc = "done"
  /\ result # <<>>
  /\ calls.list = 1

\* Index of the first and of the last candidate of all_docs with a given id
FirstSeen(id) ==
  CHOOSE i \in 1..Len(all_docs) :
    all_docs[i].id = id /\ \A j \in 1..(i - 1) : all_docs[j].id # id

LastSeen(id) ==
  CHOOSE i \in 1..Len(all_docs) :
    all_docs[i].id = id /\ \A j \in (i + 1)..Len(all_docs) : all_docs[j].id # id

\* unique holds every identity of all_docs once, in first-seen order
UniqueInFirstSeenOrder ==
  /\ {unique[j].id : j \in 1..Len(unique)} = {all_docs[i].id : i \in 1..Len(all_docs)}
  /\ \A i, j \in 1..Len(unique) :
       i < j => FirstSeen(unique[i].id) < FirstSeen(unique[j].id)

\* C3 as stated: the deduplicated candidates hold each identity once, in
\* first-seen order, and the candidate kept is the identity's first occurrence.
C3_KeepsFirstOccurrence ==
  pc = "candidates" =>
    /\ UniqueInFirstSeenOrder
    /\ \A j \in 1..Len(unique) : unique[j] = all_docs[FirstSeen(unique[j].id)]

\* C3 amended: the deduplicated candidates hold each identity once, in
\* first-seen order, and the candidate kept is the identity's last occurrence
\* (with the distance to the last query that returned it).
C3_KeepsLastOccurrence ==
  pc = "candidates" =>
    /\ UniqueInFirstSeenOrder
    /\ \A j \in 1..Len(unique) : unique[j] = all_docs[LastSeen(unique[j].id)]

\* C3 witness: two queries returned the same two documents, one of them at
\* different distances
C3_Witness ==
  /\ pc = "candidates"
  /\ Len(unique) >= 2
  /\ Len(all_docs) > Len(unique)
  /\ \E i, j \in 1..Len(all_docs) :
       /\ i < j
       /\ all_docs[i].id = all_docs[j].id
       /\ all_docs[i].distance # all_docs[j].distance

\* A judge answer that is no numeral: empty, or with a character that is not
\* a digit of any kind
NonNumeric(text) ==
  \/ strip(text) = <<>>
  \/ \E i \in 1..Len(strip(text)) :
       strip(text)[i] \notin DecimalDigitSet \cup SuperscriptDigits

\* The entry of ranked for the i-th candidate
RankedEntry(i) == CHOOSE e \in Range(ranked) : e.doc = unique[i]

\* C4: a candidate whose judge answer is non-numeric is scored exactly 5, one
\* whose judge call fails exactly 3, and the run then still ends by returning
\* a context (it never ends in an exception).
C4_RerankFallbackScores ==
  /\ \A i \in 1..Len(judged) :
       /\ (judged[i].ok /\ NonNumeric(judged[i].text))
            => RankedEntry(i).score = 5
       /\ ~judged[i].ok => RankedEntry(i).score = 3
  /\ judged # <<>> =>
       /\ pc \in {"rerank", "done"}
       /\ (pc = "done" /\ k > 0) => result # <<>>

\* C4 witness: a returned context after one non-numeric answer and one failed
\* judge call
C4_Witness ==
  /\ pc = "done"
  /\ result # <<>>
  /\ \E i, j \in 1..Len(judged) :
       /\ judged[i].ok /\ NonNumeric(judged[i].text)
       /\ ~judged[j].ok

\* No candidate is available: the owner has no document, none passes the
\* filters, or the search of every expanded query failed
NoCandidate ==
  \/ OwnDocs = {}
  \/ /\ question \in RecencyQuestions
     /\ \A i \in OwnDocs :
          Rows[i].status # (IF status_filter = None THEN "read" ELSE status_filter)
  \/ /\ question \notin RecencyQuestions
     /\ \A i \in OwnDocs :
          \/ status_filter # None /\ Rows[i].status # status_filter
          \/ genre_filter # <<>> /\ ~icontains(Rows[i].genre, genre_filter)
  \/ /\ question \notin RecencyQuestions
     /\ searched # <<>>
     /\ \A i \in 1..Len(searched) : ~searched[i]

\* C5: whenever no candidate is available, get_context returns the empty
\* string, for a recency and for a semantic question, and does not raise.
C5_EmptyContextWithoutCandidates ==
  (pc \in {"done", "raised"} /\ NoCandidate) => (pc = "done" /\ result = <<>>)

\* C6: for "What fantasy books have I read?" the classifier yields
\* status_filter = read and genre_filter = fantasy, and the context holds
\* only documents of status read and genre fantasy.
C6_FantasyReadScenario ==
  (question = Q_fantasy_read /\ pc \notin {"start"}) =>
    /\ status_filter = "read"
    /\ genre_filter = <<"f","a","n","t","a","s","y">>
    /\ \A i \in 1..Len(top_docs) :
         /\ Rows[top_docs[i]].status = "read"
         /\ lower(Rows[top_docs[i]].genre) = <<"f","a","n","t","a","s","y">>

\* The status a recency question asks for: the classified one, read by default
RecencyStatus == IF status_filter = None THEN "read" ELSE status_filter

C8_Determinism ==
  (first.ran /\ pc \in {"done", "raised"}) =>
    /\ first.raised = (pc = "raised")
    /\ first.result = result

\* C9: no failure of a sub-step escapes get_context as an exception.
C9_NoExceptionEscapes == pc # "raised"

\* C10: every corpus read is filtered by the service's owner: each candidate
\* at every stage is a document of the owner, and the returned context is
\* made of the contents of the owner's documents only.
C10_OwnerIsolation ==
  /\ \A i \in 1..Len(all_docs) : Rows[all_docs[i].id].user = user
  /\ \A i \in 1..Len(unique) : Rows[unique[i].id].user = user
  /\ \A i \in 1..Len(ranked) : Rows[ranked[i].doc.id].user = user
  /\ \A i \in 1..Len(top_docs) : Rows[top_docs[i]].user = user
  /\ pc = "done" =>
       result = join(<<"\n", "\n">>, [i \in 1..Len(top_docs) |-> Rows[top_docs[i]].content])

\* C10 witness: a context returned by a semantic run while another owner's
\* document that passes the same filters is in the corpus
C10_Witness ==
  /\ pc = "done"
  /\ question \notin RecencyQuestions
  /\ result # <<>>
  /\ \E i \in corpus :
       /\ Rows[i].user # user
       /\ status_filter # None => Rows[i].status = status_filter
       /\ genre_filter # <<>> => icontains(Rows[i].genre, genre_filter)

\* The lines of a text: the stretches between its line breaks
LineBreaks(t) == {i \in 1..Len(t) : t[i] = "\n"}

LinesOf(t) ==
  LET ends == LineBreaks(t) \cup {Len(t) + 1}
      starts == {0} \cup LineBreaks(t)
      nth(n) == CHOOSE e \in ends : Cardinality({x \in ends : x < e}) = n - 1
      before(e) == CHOOSE b \in starts : b < e /\ \A x \in starts : x < e => x <= b
  IN [n \in 1..Cardinality(ends) |-> SubSeq(t, before(nth(n)) + 1, nth(n) - 1)]

\* A line without its leading and trailing white space
Trimmed(l) ==
  LET inked == {i \in 1..Len(l) : l[i] \notin Whitespace} IN
    IF inked = {} THEN <<>>
    ELSE SubSeq(l, CHOOSE i \in inked : \A j \in inked : i <= j,
                   CHOOSE i \in inked : \A j \in inked : j <= i)

\* The usable lines of a rewrite response: trimmed and not empty
UsableLines(t) ==
  SelectSeq([n \in 1..Len(LinesOf(t)) |-> Trimmed(LinesOf(t)[n])], LAMBDA l : l # <<>>)

\* C11: when the rewrite call fails or its response has no non-empty line,
\* the queries are the question alone; otherwise they are the first at most
\* 3 trimmed non-empty lines of the response. The query list has 1 to 3
\* elements and a failed rewrite leaves the run going.
C11_QueryExpansion ==
  /\ pc \in {"search", "query", "candidates"} =>
       LET usable == UsableLines(rewritten.text) IN
         /\ rewritten # NoReply
         /\ (~rewritten.ok \/ usable = <<>>) => queries = <<question>>
         /\ (rewritten.ok /\ usable # <<>>) =>
              /\ Len(queries) = (IF Len(usable) < 3 THEN Len(usable) ELSE 3)
              /\ \A i \in 1..Len(queries) : queries[i] = usable[i]
  /\ (pc \in {"search", "query", "candidates", "rerank"}
       \/ (pc = "done" /\ question \notin RecencyQuestions)) =>
       Len(queries) \in 1..3

\* C11 witness: a response of four lines gave the first three as queries, and
\* the search loop has gone through them
C11_Witness ==
  /\ pc = "candidates"
  /\ rewritten = Reply(<<"a","\n","b","\n","c","\n","d">>)
  /\ queries = <<<<"a">>, <<"b">>, <<"c">>>>
  /\ qi = 3

\* The results of the searches that succeeded, one after the other
RECURSIVE Gathered(_)
Gathered(log) ==
  IF log = <<>> THEN <<>>
  ELSE Gathered(SubSeq(log, 1, Len(log) - 1))
       \o (IF log[Len(log)].ok THEN log[Len(log)].results ELSE <<>>)

\* C12: a query whose search fails adds no candidate, the candidates of the
\* earlier queries stay, and the later queries are searched all the same: the
\* candidate list is the results of the successful searches in query order,
\* and every query has been searched once the loop is over.
C12_SearchFailureSkipsQuery ==
  pc \in {"search", "query", "candidates"} =>
    /\ Len(searches) = qi
    /\ calls.search = qi
    /\ all_docs = Gathered(searches)
    /\ \A i \in 1..Len(searches) :
         searches[i].ok =>
           LET S == base_qs(corpus, user, status_filter, genre_filter) IN
             /\ Len(searches[i].results) = (IF Cardinality(S) < OVER_RETRIEVE THEN Cardinality(S) ELSE OVER_RETRIEVE)
             /\ {searches[i].results[j].id : j \in 1..Len(searches[i].results)} \subseteq S
    /\ pc = "candidates" => qi = Len(queries)

\* C12 witness: of three queries the second failed; the first and the third
\* gave the candidates
C12_Witness ==
  /\ pc = "candidates"
  /\ Len(searches) = 3
  /\ searches[1].ok /\ searches[1].results # <<>>
  /\ ~searches[2].ok
  /\ searches[3].ok /\ searches[3].results # <<>>
  /\ all_docs = searches[1].results \o searches[3].results

\* Place of a candidate in the deduplicated list
PlaceInUnique(doc) == CHOOSE i \in 1..Len(unique) : unique[i] = doc

\* C13: a semantic run selects the first k of the unique candidates ordered
\* by rerank score descending, candidates of equal score in their order after
\* deduplication; the context is their contents in that order, joined by a
\* blank line, at most k snippets.
C13_RankedSelection ==
  (pc = "done" /\ question \notin RecencyQuestions) =>
    /\ Len(ranked) = Len(unique)
    /\ {ranked[i].doc : i \in 1..Len(ranked)} = Range(unique)
    /\ \A i \in 1..Len(ranked) : ranked[i].score = score(judged[PlaceInUnique(ranked[i].doc)])
    /\ \A i, j \in 1..Len(ranked) :
         i < j =>
           \/ ranked[i].score > ranked[j].score
           \/ /\ ranked[i].score = ranked[j].score
              /\ PlaceInUnique(ranked[i].doc) < PlaceInUnique(ranked[j].doc)
    /\ Len(top_docs) = (IF k < Len(ranked) THEN k ELSE Len(ranked))
    /\ \A i \in 1..Len(top_docs) : top_docs[i] = ranked[i].doc.id
    /\ Len(top_docs) <= k
    /\ result = join(<<"\n", "\n">>, [i \in 1..Len(top_docs) |-> Rows[top_docs[i]].content])

\* C13 witness: three candidates, the best scored one not the first found,
\* two of equal score, and k cutting the selection to one
C13_Witness ==
  /\ pc = "done"
  /\ question \notin RecencyQuestions
  /\ Len(ranked) = 3
  /\ ranked[1].doc # unique[1]
  /\ ranked[2].score = ranked[3].score
  /\ Len(top_docs) = 1
  /\ k = 1

\* C14: every rerank score attached to a candidate is an integer from 0 to
\* 10, whatever text the judge call returned.
C14_ScoreRange ==
  \A i \in 1..Len(ranked) : ranked[i].score \in 0..10

\* A text in lower case without its spaces and hyphens
Normalized(t) == replace(replace(lower(t), " "), "-")

\* C15: every spelling of a genre that differs only in letter case, spaces
\* or hyphens is classified to the same token: a question that names sci-fi
\* in any such spelling (and no other genre) gets genre_filter = scifi, "Sci-Fi"
\* and "sci fi" alike, and one that names fantasy gets fantasy.
C15_GenreNormalization ==
  pc = "classified" =>
    LET names_scifi == Contains(Normalized(question), <<"s","c","i","f","i">>)
        names_fantasy == Contains(Normalized(question), <<"f","a","n","t","a","s","y">>)
    IN /\ (names_scifi /\ ~names_fantasy) => intent.genre_filter = <<"s","c","i","f","i">>
       /\ (names_fantasy /\ ~names_scifi) => intent.genre_filter = <<"f","a","n","t","a","s","y">>

\* C16: when the question names a genre, the candidates of a successful
\* search are the owner's documents (of the asked status) whose stored genre
\* is that genre in any case, space or hyphen spelling, and no document of
\* another genre.
C16_GenreFilterAlignsWithStoredGenre ==
  (/\ pc = "candidates"
   /\ genre_filter # <<>>
   /\ \E i \in 1..Len(searches) : searches[i].ok)
  => {all_docs[i].id : i \in 1..Len(all_docs)}
       = {d \in OwnDocs : /\ (status_filter # None => Rows[d].status = status_filter)
                          /\ Normalized(Rows[d].genre) = genre_filter}

\* C17: a query whose embedding fails is searched with the all-zero vector
\* of the corpus dimension (nothing is raised) and then adds no candidate,
\* while the other queries add theirs.
C17_FailedEmbeddingGivesNoMatches ==
  /\ pc = "query" => Len(vec) = EMBEDDING_DIM
  /\ pc \in {"search", "query", "candidates"} =>
       /\ \A i \in 1..Len(searches) : ~searches[i].embedded => searches[i].results = <<>>
       /\ all_docs = Gathered(SelectSeq(searches, LAMBDA x : x.embedded))

\* The documents held for a tracked book
DocsOf(ub) == {e \in book_embeddings : e.user_book = ub.id}

\* C18: after any sequence of creations, updates and deletions of tracked
\* books, the corpus holds exactly one document for each existing record and
\* none for a deleted one, each document has the owner of its record, and its
\* content is the text of the record as last saved.
C18_CorpusLifecycle ==
  /\ \A ub \in user_books :
       /\ Cardinality(DocsOf(ub)) = 1
       /\ \A e \in DocsOf(ub) : e.user = ub.user /\ e.content = doc_text(ub)
  /\ \A e \in book_embeddings : \E ub \in user_books : ub.id = e.user_book

====
